---- MODULE Spec2Model ----
(***************************************************************************)
(* The meta-reference chat_completion pipeline of llama_toolchain          *)
(* (inference/meta_reference/inference.py): the process-wide SEMAPHORE,    *)
(* the async generator MetaReferenceInferenceImpl.chat_completion and its  *)
(* consumers; and ResumableDownloader.download of cli/download.py.  One asyncio event loop runs everything: a generator runs    *)
(* from one suspension point (a yield) to the next without interleaving,   *)
(* which the variable `running` records.                                   *)
(*                                                                         *)
(* Python strings are sequences of one-character strings, so that          *)
(* `buffer += text`, `buffer.startswith(...)` and `buffer[len(...):]` are  *)
(* computed as Python computes them.                                       *)
(***************************************************************************)
EXTENDS Integers, Sequences, FiniteSets, TLC

----------------------------------------------------------------------------
(* Bounds of the model *)

\* generator objects (calls of chat_completion) alive at the same time
NumSessions == 2

\* fragments the token iterator yields at most in one session
MaxTokens == 3

\* tool calls the decoder finds at most in one message
MaxToolCalls == 2

Sessions == 1 .. NumSessions

\* bytes of the file a ResumableDownloader fetches, at most
MaxSize == 4

\* max_chunk_size (27_000_000_000 in download.py), scaled to the file sizes
\* of the model: a file may be shorter than, as long as, or longer than it
MaxChunkSize == 2

\* GET requests one call of download() makes at most
MaxRequests == 3

----------------------------------------------------------------------------
(* Strings *)

PYTHON_TAG == <<"<", "|", "p", "y", "t", "h", "o", "n", "_", "t", "a", "g", "|", ">">>

EOT_ID == <<"<", "|", "e", "o", "t", "_", "i", "d", "|", ">">>

EOM_ID == <<"<", "|", "e", "o", "m", "_", "i", "d", "|", ">">>

\* "<|python": the sentinel's first eight characters, a fragment of their own
TagHead == SubSeq(PYTHON_TAG, 1, 8)

Foo == <<"f", "o", "o", "(">>

One == <<"1", ")">>

\* "_tag|>foo(": the rest of the sentinel followed by text, in one fragment
TagTailFoo == SubSeq(PYTHON_TAG, 9, Len(PYTHON_TAG)) \o Foo

\* the texts of the tokens the engine can generate; a token id is an index
Vocabulary == <<PYTHON_TAG, TagHead, TagTailFoo, Foo, One, EOT_ID, EOM_ID>>

\* str.startswith
StartsWith(s, prefix) ==
    /\ Len(s) >= Len(prefix)
    /\ SubSeq(s, 1, Len(prefix)) = prefix

\* s[n:]
DropPrefix(s, n) == SubSeq(s, n + 1, Len(s))

\* one step of the generation engine: TokenResult(token, text, logprob)
TokenResult(id) == [token |-> id, text |-> Vocabulary[id], logprob |-> 0 - id]

TokenResults == {TokenResult(id) : id \in 1 .. Len(Vocabulary)}

----------------------------------------------------------------------------
(* API data types *)

\* a plain-text delta
Str(text) == [type |-> "str", text |-> text]

ToolCallDelta(content, parse_status) ==
    [type |-> "ToolCallDelta", content |-> content, parse_status |-> parse_status]

\* ChatCompletionResponseStreamChunk(event=ChatCompletionResponseEvent(...));
\* stop_reason defaults to None
StreamChunk(event_type, delta, stop_reason) ==
    [class |-> "ChatCompletionResponseStreamChunk",
     event_type |-> event_type, delta |-> delta, stop_reason |-> stop_reason]

ChatCompletionResponse(message, logprobs) ==
    [class |-> "ChatCompletionResponse",
     completion_message |-> message, logprobs |-> logprobs]

\* the i-th tool call the decoder parsed out of the tokens
ToolCall(i) == [call |-> i]

\* what decode_assistant_message can return for (tokens, stop_reason): the
\* decoder is outside this repository, so the number of tool calls it parses
\* is any number up to the bound
DecodedMessages(toks, reason) ==
    {[tokens |-> toks, stop_reason |-> reason,
      tool_calls |-> [i \in 1 .. n |-> ToolCall(i)]] : n \in 0 .. MaxToolCalls}

NoMessage == [tokens |-> <<>>, stop_reason |-> "None", tool_calls |-> <<>>]

\* ChatCompletionRequest: what chat_completion reads of it.  model is what
\* resolve_model and the descriptor comparison make of request.model.  The
\* code reads request.logprobs in a non-streaming session only (lines 125 and
\* 202) and reads neither flag before the model is checked, so the requests
\* that differ only in a flag that is not read are left out.
Requests ==
    {req \in [model : {"loaded", "unknown", "other"}, stream : BOOLEAN,
              logprobs : BOOLEAN] :
        /\ req.stream => ~req.logprobs
        /\ req.model # "loaded" => req.stream}

NoRequest == [model |-> "loaded", stream |-> FALSE, logprobs |-> FALSE]

----------------------------------------------------------------------------
(* State *)

VARIABLES
    SEMAPHORE,      \* the permits left in asyncio.Semaphore(1)
    running,        \* the sessions whose generator is running: none or one
    pc,             \* per session: the statement its generator executes next
    request,        \* per session: the request of the call
    abandoned,      \* per session: its consumer has stopped reading
    error,          \* per session: the exception that left the generator
    out,            \* per session: the items yielded to the consumer so far
    frags,          \* per session: the TokenResults the iterator has yielded
    tokens,         \* per session: local `tokens`
    logprobs,       \* per session: local `logprobs`
    stop_reason,    \* per session: local `stop_reason`
    buffer,         \* per session: local `buffer`
    ipython,        \* per session: local `ipython`
    message,        \* per session: local `message`
    decodes,        \* per session: calls of decode_assistant_message so far
    next_call,      \* per session: position of the loop over message.tool_calls
    download_pc,    \* ResumableDownloader.download: where the call is
    total_size,     \* self.total_size
    downloaded_size, \* self.downloaded_size
    start_size,     \* self.start_size
    output_file,    \* the bytes of self.output_file on disk, as offsets of the
                    \* remote file; empty when the file does not exist
    range_requests, \* the GET requests of the loop so far
    remote_size,    \* the length of the file the server has at self.url
    honours_ranges  \* the server answers a Range header with that range

download_vars ==
    <<download_pc, total_size, downloaded_size, start_size, output_file,
      range_requests, remote_size, honours_ranges>>

vars ==
    <<SEMAPHORE, running, pc, request, abandoned, error, out, frags, tokens,
      logprobs, stop_reason, buffer, ipython, message, decodes, next_call,
      download_vars>>

locals == <<tokens, logprobs, stop_reason, buffer, ipython>>

\* the generator is inside `async with SEMAPHORE`
Gated == {"loop", "tool_calls", "complete", "end"}

\* the generator has finished: returned, raised, or was closed
Dead == {"done", "raised", "closed"}

\* line 80 left out: the call goes on to `async with SEMAPHORE`
Locked_unchecked == FALSE

\* asyncio.Semaphore.locked()
Locked == SEMAPHORE = 0

\* the session is suspended at a yield inside the gate
Suspended(s) == pc[s] \in Gated /\ s \notin running

\* the event loop is free, and every finished generator has been dropped
Quiet == running = {} /\ \A s \in Sessions : pc[s] \notin Dead

\* a new generator object takes the first slot that is free
FirstIdle(s) == pc[s] = "idle" /\ \A t \in 1 .. s - 1 : pc[t] # "idle"

\* the session's generator executes its next statement: it is running, or the
\* event loop is free and the consumer resumes it with __anext__
Runs(s) ==
    \/ running = {s}
    \/ Quiet /\ Suspended(s) /\ ~abandoned[s]

\* asyncio.Semaphore(2): one permit too many
SemaphoreInit_two == 1 + 1

\* SEMAPHORE = asyncio.Semaphore(1)
SemaphoreInit == 1

\* no call of chat_completion has been made
NoSessions ==
    /\ SEMAPHORE = SemaphoreInit
    /\ running = {}
    /\ pc = [s \in Sessions |-> "idle"]
    /\ request = [s \in Sessions |-> NoRequest]
    /\ abandoned = [s \in Sessions |-> FALSE]
    /\ error = [s \in Sessions |-> "None"]
    /\ out = [s \in Sessions |-> <<>>]
    /\ frags = [s \in Sessions |-> <<>>]
    /\ tokens = [s \in Sessions |-> <<>>]
    /\ logprobs = [s \in Sessions |-> <<>>]
    /\ stop_reason = [s \in Sessions |-> "None"]
    /\ buffer = [s \in Sessions |-> <<>>]
    /\ ipython = [s \in Sessions |-> FALSE]
    /\ message = [s \in Sessions |-> NoMessage]
    /\ decodes = [s \in Sessions |-> <<>>]
    /\ next_call = [s \in Sessions |-> 1]

\* no ResumableDownloader has been constructed
NoDownloader ==
    /\ download_pc = "none"
    /\ total_size = 0
    /\ downloaded_size = 0
    /\ start_size = 0
    /\ output_file = <<>>
    /\ range_requests = <<>>
    /\ remote_size = 0
    /\ honours_ranges = TRUE

Init == NoSessions /\ NoDownloader

----------------------------------------------------------------------------
(* Operations *)

\* `yield item`: the item goes to the consumer and the generator is suspended
Yield(s, item) ==
    /\ out' = [out EXCEPT ![s] = Append(@, item)]
    /\ running' = {}

\* the permit taken with a bare acquire(), not released when an exception passes
Raise_unreleased(s, exc, held) ==
    /\ pc' = [pc EXCEPT ![s] = "raised"]
    /\ error' = [error EXCEPT ![s] = exc]
    /\ SEMAPHORE' = SEMAPHORE
    /\ running' = {}

\* an exception leaves the generator; `async with` releases on the way out
\* when the gate was held
Raise(s, exc, held) ==
    /\ pc' = [pc EXCEPT ![s] = "raised"]
    /\ error' = [error EXCEPT ![s] = exc]
    /\ SEMAPHORE' = IF held THEN SEMAPHORE + 1 ELSE SEMAPHORE
    /\ running' = {}

\* lines 75-78 left out: only an unknown model is refused
ModelError_unknown_only(req) ==
    IF req.model = "unknown" THEN "unknown_model" ELSE "None"

\* lines 70-78: the RuntimeError the request's model raises, or None
ModelError(req) ==
    IF req.model = "unknown" THEN "unknown_model"
    ELSE IF req.model = "other" THEN "model_mismatch"
    ELSE "None"

\* `ipython` kept on the shared impl object and not reset by a new call
FreshIpython_shared(s) == \E t \in Sessions \ {s} : ipython[t]

\* line 98: ipython = False
FreshIpython(s) == FALSE

\* impl.chat_completion(request) and the first __anext__: lines 70-98, up to
\* the first suspension.  A session waiting in SEMAPHORE.acquire() goes on
\* from line 83 once a permit is free.
Begin(s, req) ==
    /\ Quiet
    /\ FirstIdle(s) \/ pc[s] = "acquire"
    /\ pc[s] = "acquire" => req = request[s] /\ ~Locked
    /\ request' = [request EXCEPT ![s] = req]
    /\ IF pc[s] = "idle" /\ ModelError(req) # "None"
         THEN Raise(s, ModelError(req), FALSE) /\ UNCHANGED <<out, locals>>
       ELSE IF pc[s] = "idle" /\ Locked
         THEN Raise(s, "busy", FALSE) /\ UNCHANGED <<out, locals>>
       ELSE IF SEMAPHORE = 0
         THEN /\ pc' = [pc EXCEPT ![s] = "acquire"]
              /\ UNCHANGED <<SEMAPHORE, running, error, out, locals>>
       ELSE /\ SEMAPHORE' = SEMAPHORE - 1
            /\ pc' = [pc EXCEPT ![s] = "loop"]
            /\ error' = error
            /\ IF req.stream
                 THEN Yield(s, StreamChunk("start", Str(<<>>), "None"))
                 ELSE running' = {s} /\ out' = out
            /\ tokens' = [tokens EXCEPT ![s] = <<>>]
            /\ logprobs' = [logprobs EXCEPT ![s] = <<>>]
            /\ stop_reason' = [stop_reason EXCEPT ![s] = "None"]
            /\ buffer' = [buffer EXCEPT ![s] = <<>>]
            /\ ipython' = [ipython EXCEPT ![s] = FreshIpython(s)]
    /\ UNCHANGED <<abandoned, frags, message, decodes, next_call>>
    /\ UNCHANGED download_vars

\* lines 133-135 left out: only the end-of-turn marker is recognised
Classify_eot_only(reason, text) ==
    IF text = EOT_ID THEN "end_of_turn" ELSE reason

\* lines 130-137: the stop reason after a fragment of this text
Classify(reason, text) ==
    IF text = EOT_ID THEN "end_of_turn"
    ELSE IF text = EOM_ID THEN "end_of_message"
    ELSE reason

\* lines 130-137: the text payload of the fragment
Payload(text) == IF text \in {EOT_ID, EOM_ID} THEN <<>> ELSE text

\* the test of line 110 with == for startswith
EntersToolCall_exact(s, buf) == ~ipython[s] /\ buf = PYTHON_TAG

\* the test of line 110 without `not ipython`
EntersToolCall_again(s, buf) == StartsWith(buf, PYTHON_TAG)

\* line 110: the fragment switches the session to tool-call mode
EntersToolCall(s, buf) == ~ipython[s] /\ StartsWith(buf, PYTHON_TAG)

\* line 124: the rest of the loop body is skipped
SkipsEvents(s) == ~request[s].stream

\* the test of line 147 left out: every fragment's event is yielded
Emits_always(reason) == TRUE

\* line 147: the fragment's progress event is yielded
Emits(reason) == reason = "None"

\* the ids of the marker fragments dropped from `tokens`
Accumulate_no_markers(toks, token_result) ==
    IF token_result.text \in {EOT_ID, EOM_ID} THEN toks
    ELSE Append(toks, token_result.token)

\* line 108: tokens.append(token_result.token)
Accumulate(toks, token_result) == Append(toks, token_result.token)

\* lines 107-154: one pass of the loop body, for the fragment token_result
Consume(s, token_result) ==
    LET buf  == buffer[s] \o token_result.text
        stop == Classify(stop_reason[s], token_result.text)
        text == Payload(token_result.text)
        delta == IF ipython[s] THEN ToolCallDelta(text, "in_progress") ELSE Str(text)
    IN
    /\ Runs(s)
    /\ pc[s] = "loop"
    /\ frags' = [frags EXCEPT ![s] = Append(@, token_result)]
    /\ tokens' = [tokens EXCEPT ![s] = Accumulate(@, token_result)]
    /\ IF EntersToolCall(s, buf)
         THEN /\ ipython' = [ipython EXCEPT ![s] = TRUE]
              /\ Yield(s, StreamChunk("progress", ToolCallDelta(<<>>, "started"), "None"))
              /\ buffer' = [buffer EXCEPT ![s] = DropPrefix(buf, Len(PYTHON_TAG))]
              /\ UNCHANGED <<logprobs, stop_reason>>
       ELSE IF SkipsEvents(s)
         THEN /\ logprobs' = [logprobs EXCEPT ![s] =
                     IF request[s].logprobs THEN Append(@, token_result.logprob) ELSE @]
              /\ buffer' = [buffer EXCEPT ![s] = buf]
              /\ running' = {s}
              /\ UNCHANGED <<ipython, stop_reason, out>>
       ELSE /\ stop_reason' = [stop_reason EXCEPT ![s] = stop]
            /\ buffer' = [buffer EXCEPT ![s] = buf]
            /\ IF Emits(stop)
                 THEN Yield(s, StreamChunk("progress", delta, stop))
                 ELSE running' = {s} /\ out' = out
            /\ UNCHANGED <<ipython, logprobs>>
    /\ UNCHANGED <<SEMAPHORE, pc, request, abandoned, error, message, decodes, next_call>>
    /\ UNCHANGED download_vars

\* lines 100-154: the iterator yields token_result, any fragment of the
\* vocabulary, while the session has tokens left to generate
NextToken(s, token_result) ==
    /\ Len(frags[s]) < MaxTokens
    /\ Consume(s, token_result)

\* lines 156-157 left out
FinalStopReason_unset(reason) == reason

\* lines 156-157
FinalStopReason(reason) == IF reason = "None" THEN "out_of_tokens" ELSE reason

\* line 166 without `and not parsed_tool_calls`
ReportsFailure_unparsed(s, msg) == ipython[s]

\* line 166 without `ipython and`
ReportsFailure_no_calls(s, msg) == ~(Len(msg.tool_calls) > 0)

\* lines 165-166: tool-call mode was entered and no tool call was parsed
ReportsFailure(s, msg) == ipython[s] /\ ~(Len(msg.tool_calls) > 0)

\* lines 156-176 and 199-203: the iterator is exhausted; the message is decoded
Exhaust(s, msg) ==
    LET stop == FinalStopReason(stop_reason[s]) IN
    /\ Runs(s)
    /\ pc[s] = "loop"
    /\ msg \in DecodedMessages(tokens[s], stop)
    /\ stop_reason' = [stop_reason EXCEPT ![s] = stop]
    /\ message' = [message EXCEPT ![s] = msg]
    /\ decodes' = [decodes EXCEPT ![s] = Append(@, [tokens |-> tokens[s], stop_reason |-> stop])]
    /\ IF request[s].stream
         THEN /\ pc' = [pc EXCEPT ![s] = "tool_calls"]
              /\ IF ReportsFailure(s, msg)
                   THEN Yield(s, StreamChunk("progress", ToolCallDelta(<<>>, "failure"), stop))
                   ELSE running' = {s} /\ out' = out
         ELSE /\ pc' = [pc EXCEPT ![s] = "end"]
              /\ Yield(s, ChatCompletionResponse(msg,
                     [present |-> request[s].logprobs,
                      value |-> IF request[s].logprobs THEN logprobs[s] ELSE <<>>]))
    /\ UNCHANGED <<SEMAPHORE, request, abandoned, error, frags, tokens, logprobs,
                   buffer, ipython, next_call>>
    /\ UNCHANGED download_vars

\* the last event typed progress, as the events before it
CompleteEvent_progress(reason) == StreamChunk("progress", Str(<<>>), reason)

\* lines 190-196
CompleteEvent(reason) == StreamChunk("complete", Str(<<>>), reason)

\* lines 178-196: one success event per tool call, then the complete event
ToolCalls(s) ==
    /\ Runs(s)
    /\ pc[s] = "tool_calls"
    /\ IF next_call[s] <= Len(message[s].tool_calls)
         THEN /\ Yield(s, StreamChunk("progress",
                     ToolCallDelta(message[s].tool_calls[next_call[s]], "success"),
                     stop_reason[s]))
              /\ next_call' = [next_call EXCEPT ![s] = @ + 1]
              /\ pc' = pc
         ELSE /\ Yield(s, CompleteEvent(stop_reason[s]))
              /\ pc' = [pc EXCEPT ![s] = "end"]
              /\ next_call' = next_call
    /\ UNCHANGED <<SEMAPHORE, request, abandoned, error, frags, locals, message, decodes>>
    /\ UNCHANGED download_vars

\* the body ends: `async with` releases SEMAPHORE, StopAsyncIteration
Return(s) ==
    /\ Runs(s)
    /\ pc[s] = "end"
    /\ pc' = [pc EXCEPT ![s] = "done"]
    /\ SEMAPHORE' = SEMAPHORE + 1
    /\ running' = {}
    /\ UNCHANGED <<request, abandoned, error, out, frags, locals, message, decodes,
                   next_call>>
    /\ UNCHANGED download_vars

\* line 100: the engine's iterator raises instead of yielding a token
EngineError(s) ==
    /\ Runs(s)
    /\ pc[s] = "loop"
    /\ Raise(s, "engine", TRUE)
    /\ UNCHANGED <<request, abandoned, out, frags, locals, message, decodes, next_call>>
    /\ UNCHANGED download_vars

\* lines 156-163: the iterator is exhausted and decode_assistant_message raises
DecodeError(s) ==
    LET stop == FinalStopReason(stop_reason[s]) IN
    /\ Runs(s)
    /\ pc[s] = "loop"
    /\ stop_reason' = [stop_reason EXCEPT ![s] = stop]
    /\ decodes' = [decodes EXCEPT ![s] = Append(@, [tokens |-> tokens[s], stop_reason |-> stop])]
    /\ Raise(s, "decode", TRUE)
    /\ UNCHANGED <<request, abandoned, out, frags, tokens, logprobs, buffer, ipython,
                   message, next_call>>
    /\ UNCHANGED download_vars

\* the consumer stops reading: it never asks this generator for an item again
Abandon(s) ==
    /\ Quiet
    /\ Suspended(s)
    /\ ~abandoned[s]
    /\ abandoned' = [abandoned EXCEPT ![s] = TRUE]
    /\ UNCHANGED <<SEMAPHORE, running, pc, request, error, out, frags, locals,
                   message, decodes, next_call>>
    /\ UNCHANGED download_vars

\* the generator object is dropped; the slot serves a later call
Drop(s) ==
    /\ pc' = [pc EXCEPT ![s] = "idle"]
    /\ request' = [request EXCEPT ![s] = NoRequest]
    /\ abandoned' = [abandoned EXCEPT ![s] = FALSE]
    /\ error' = [error EXCEPT ![s] = "None"]
    /\ out' = [out EXCEPT ![s] = <<>>]
    /\ frags' = [frags EXCEPT ![s] = <<>>]
    /\ tokens' = [tokens EXCEPT ![s] = <<>>]
    /\ logprobs' = [logprobs EXCEPT ![s] = <<>>]
    /\ stop_reason' = [stop_reason EXCEPT ![s] = "None"]
    /\ buffer' = [buffer EXCEPT ![s] = <<>>]
    /\ ipython' = [ipython EXCEPT ![s] = FALSE]
    /\ message' = [message EXCEPT ![s] = NoMessage]
    /\ decodes' = [decodes EXCEPT ![s] = <<>>]
    /\ next_call' = [next_call EXCEPT ![s] = 1]

\* the consumer drops a finished generator
Forget(s) ==
    /\ pc[s] \in Dead
    /\ Drop(s)
    /\ UNCHANGED <<SEMAPHORE, running>>
    /\ UNCHANGED download_vars

\* aclose(), by the consumer or by the event loop's finalizer once the generator
\* object is garbage: GeneratorExit is raised at the yield where the generator
\* is suspended, `async with` releases SEMAPHORE, and the generator is dropped
Close(s) ==
    /\ Quiet
    /\ Suspended(s) \/ pc[s] = "acquire"
    /\ SEMAPHORE' = IF pc[s] \in Gated THEN SEMAPHORE + 1 ELSE SEMAPHORE
    /\ Drop(s)
    /\ UNCHANGED running
    /\ UNCHANGED download_vars

Next ==
    \E s \in Sessions :
        \/ \E req \in Requests : Begin(s, req)
        \/ /\ pc[s] = "loop"
           /\ \E token_result \in TokenResults : NextToken(s, token_result)
        \/ /\ pc[s] = "loop"
           /\ \E msg \in DecodedMessages(tokens[s], FinalStopReason(stop_reason[s])) :
                 Exhaust(s, msg)
        \/ ToolCalls(s)
        \/ Return(s)
        \/ EngineError(s)
        \/ DecodeError(s)
        \/ Abandon(s)
        \/ Close(s)
        \/ Forget(s)

Spec == Init /\ [][Next]_vars

\* what the event loop does without anyone's decision to stop or to close:
\* running generators run on, consumers that have not stopped reading ask for
\* the next item, finished generators are dropped, new calls arrive
Scheduled ==
    \E s \in Sessions :
        \/ \E req \in Requests : Begin(s, req)
        \/ /\ pc[s] = "loop"
           /\ \E token_result \in TokenResults : NextToken(s, token_result)
        \/ /\ pc[s] = "loop"
           /\ \E msg \in DecodedMessages(tokens[s], FinalStopReason(stop_reason[s])) :
                 Exhaust(s, msg)
        \/ ToolCalls(s)
        \/ Return(s)
        \/ Forget(s)

\* nothing obliges a consumer to go on reading, or anyone to call aclose()
LiveSpec == Spec /\ WF_vars(Scheduled)

-----------------------------------------------------------------------------
(* Two sessions one after the other, on the same request and engine output *)

\* the finished sessions whose outputs the consumer has kept
Kept == {s \in Sessions : pc[s] = "kept"}

\* the consumer keeps what a finished session delivered, for comparison
Keep(s) ==
    /\ pc[s] = "done"
    /\ Kept = {}
    /\ pc' = [pc EXCEPT ![s] = "kept"]
    /\ UNCHANGED <<SEMAPHORE, running, request, abandoned, error, out, frags,
                   locals, message, decodes, next_call>>
    /\ UNCHANGED download_vars

\* the first session: any request for the loaded model, any fragments, any
\* result of the decoder, read to its end
ReplayFirst ==
    \E s \in Sessions :
        \/ \E req \in Requests :
               Kept = {} /\ req.model = "loaded" /\ ~Locked /\ Begin(s, req)
        \/ \E token_result \in TokenResults :
               Kept = {} /\ NextToken(s, token_result)
        \/ \E msg \in DecodedMessages(tokens[s], FinalStopReason(stop_reason[s])) :
               Kept = {} /\ Exhaust(s, msg)
        \/ Kept = {} /\ ToolCalls(s)
        \/ Kept = {} /\ Return(s)
        \/ Keep(s)

\* the second session, called once the first is over: the same request, the
\* engine yields the same fragments, and the decoder finds the same tool calls
ReplaySecond ==
    \E k \in Sessions, s \in Sessions :
        \/ k \in Kept /\ ~Locked /\ Begin(s, request[k])
        \/ /\ k \in Kept
           /\ Len(frags[s]) < Len(frags[k])
           /\ Consume(s, frags[k][Len(frags[s]) + 1])
        \/ \E msg \in DecodedMessages(tokens[s], FinalStopReason(stop_reason[s])) :
               /\ k \in Kept
               /\ Len(frags[s]) = Len(frags[k])
               /\ msg.tool_calls = message[k].tool_calls
               /\ Exhaust(s, msg)
        \/ k \in Kept /\ ToolCalls(s)
        \/ k \in Kept /\ Return(s)

ReplayNext == ReplayFirst \/ ReplaySecond

ReplaySpec == Init /\ [][ReplayNext]_vars

-----------------------------------------------------------------------------
(* The engine generating a tool call: sentinel, "foo(", "1)", end of turn *)

ExampleTexts == <<PYTHON_TAG, Foo, One, EOT_ID>>

\* lines 100-154 with the engine yielding the fragments of ExampleTexts
ExampleToken(s, token_result) ==
    /\ Len(frags[s]) < Len(ExampleTexts)
    /\ token_result.text = ExampleTexts[Len(frags[s]) + 1]
    /\ Consume(s, token_result)

\* lines 156-176 and 199-203, once the four fragments have been yielded
ExampleExhaust(s, msg) ==
    /\ Len(frags[s]) = Len(ExampleTexts)
    /\ Exhaust(s, msg)

ExampleNext ==
    \E s \in Sessions :
        \/ \E req \in Requests : Begin(s, req)
        \/ \E token_result \in TokenResults : ExampleToken(s, token_result)
        \/ \E msg \in DecodedMessages(tokens[s], FinalStopReason(stop_reason[s])) :
               ExampleExhaust(s, msg)
        \/ ToolCalls(s)
        \/ Return(s)
        \/ Abandon(s)
        \/ Close(s)
        \/ Forget(s)

ExampleSpec == Init /\ [][ExampleNext]_vars

-----------------------------------------------------------------------------
(* ResumableDownloader (cli/download.py) *)

\* the offsets lo .. hi of the remote file, in order
Bytes(lo, hi) == [i \in 1 .. hi - lo + 1 |-> lo + i - 1]

\* min(a, b)
Min(a, b) == IF a < b THEN a ELSE b

\* lines 160-173 and the world around the object: the server's file, whether
\* the server honours Range, the caller's total_size (the file's size, or 0
\* for unknown), and what an earlier run left in output_file (nothing, a
\* part of the remote file, or more than the remote file)
DownloadInit ==
    /\ NoSessions
    /\ download_pc = "constructed"
    /\ remote_size \in 1 .. MaxSize
    /\ honours_ranges \in BOOLEAN
    /\ total_size \in {0, remote_size}
    /\ downloaded_size = 0
    /\ start_size = 0
    /\ output_file \in {Bytes(0, k - 1) : k \in 0 .. MaxSize + 1}
    /\ range_requests = <<>>

\* lines 192-211: get_file_info, the look at output_file, the disk space.
\* head is the answer to the HEAD request, made when total_size is 0;
\* space is has_disk_space(additional_size)
StartDownload(head, space) ==
    /\ download_pc = "constructed"
    /\ total_size > 0 => head = "ok"
    /\ IF total_size = 0 /\ head # "ok"
         THEN /\ download_pc' = "raised"
              /\ UNCHANGED <<total_size, downloaded_size, start_size>>
         ELSE /\ total_size' = IF total_size > 0 THEN total_size ELSE remote_size
              /\ downloaded_size' = Len(output_file)
              /\ start_size' = Len(output_file)
              /\ download_pc' = IF Len(output_file) >= total_size' THEN "skipped"
                                ELSE IF ~space THEN "raised"
                                ELSE "loop"
    /\ UNCHANGED <<output_file, range_requests, remote_size, honours_ranges>>
    /\ UNCHANGED <<SEMAPHORE, running, pc, request, abandoned, error, out, frags,
                   locals, message, decodes, next_call>>

\* lines 219-221
RequestSize == Min(total_size - downloaded_size, MaxChunkSize)

\* line 223: Range: bytes=first-last
RangeHeader ==
    [first |-> downloaded_size, last |-> downloaded_size + RequestSize]

\* the body the server sends for the header: the bytes first .. last, both
\* inclusive and last cut at the end of the file; the whole file (200) when
\* the server ignores Range
Served(header) ==
    IF honours_ranges
    THEN Bytes(header.first, Min(header.last, remote_size - 1))
    ELSE Bytes(0, remote_size - 1)

\* lines 213-240: one pass of the loop that makes a request.  n bytes of the
\* body are written (lines 232-234) before the response ends ("ok"), httpx
\* raises HTTPError ("http_error", lines 236-238) or anything else raises
\* ("exception", lines 239-240); after either except clause the loop goes on
Chunk(n, outcome) ==
    LET header == RangeHeader
        body == Served(header)
    IN
    /\ download_pc = "loop"
    /\ ~(downloaded_size >= total_size)
    /\ Len(range_requests) < MaxRequests
    /\ n \in 0 .. Len(body)
    /\ outcome = "ok" <=> n = Len(body)
    /\ range_requests' = Append(range_requests,
           [first |-> header.first, last |-> header.last,
            offset |-> Len(output_file), outcome |-> outcome])
    /\ output_file' = output_file \o SubSeq(body, 1, n)
    /\ downloaded_size' = downloaded_size + n
    /\ UNCHANGED <<download_pc, total_size, start_size, remote_size, honours_ranges>>
    /\ UNCHANGED <<SEMAPHORE, running, pc, request, abandoned, error, out, frags,
                   locals, message, decodes, next_call>>

\* lines 214-215 and 242: the loop ends, download() returns
FinishDownload ==
    /\ download_pc = "loop"
    /\ downloaded_size >= total_size
    /\ download_pc' = "finished"
    /\ UNCHANGED <<total_size, downloaded_size, start_size, output_file,
                   range_requests, remote_size, honours_ranges>>
    /\ UNCHANGED <<SEMAPHORE, running, pc, request, abandoned, error, out, frags,
                   locals, message, decodes, next_call>>

DownloadNext ==
    \/ \E head \in {"ok", "no_length", "error"}, space \in BOOLEAN :
           StartDownload(head, space)
    \/ \E n \in 0 .. MaxSize, outcome \in {"ok", "http_error", "exception"} :
           Chunk(n, outcome)
    \/ FinishDownload

DownloadSpec == DownloadInit /\ [][DownloadNext]_vars

----------------------------------------------------------------------------
(* Properties *)

\* the sessions inside `async with SEMAPHORE`, running or suspended at a yield
InGate == {s \in Sessions : pc[s] \in Gated}

\* the texts of the fragments the session's iterator has yielded
Texts(s) == [i \in 1 .. Len(frags[s]) |-> frags[s][i].text]

\* some fragment of the session has this text
Saw(s, text) == \E i \in 1 .. Len(frags[s]) : frags[s][i].text = text

\* C1: at most one session is between acquiring and releasing SEMAPHORE,
\* whatever the interleaving of calls and resumptions
C1_MutualExclusion == Cardinality(InGate) <= 1

\* a session is suspended inside the gate after consuming a token while
\* another call has just been made
C1_Witness ==
    \E s, t \in Sessions :
        /\ s # t
        /\ Suspended(s)
        /\ Len(frags[s]) > 0
        /\ pc[t] = "raised"

\* everything the model holds of session t is left as it is by the step
SessionUnchanged(t) ==
    /\ pc'[t] = pc[t]
    /\ request'[t] = request[t]
    /\ abandoned'[t] = abandoned[t]
    /\ error'[t] = error[t]
    /\ out'[t] = out[t]
    /\ frags'[t] = frags[t]
    /\ tokens'[t] = tokens[t]
    /\ logprobs'[t] = logprobs[t]
    /\ stop_reason'[t] = stop_reason[t]
    /\ buffer'[t] = buffer[t]
    /\ ipython'[t] = ipython[t]
    /\ message'[t] = message[t]
    /\ decodes'[t] = decodes[t]
    /\ next_call'[t] = next_call[t]

\* the step is session s's call of chat_completion, for the loaded model, made
\* while another session holds the gate
CallWhileHeld(s) ==
    /\ pc[s] = "idle"
    /\ pc'[s] # "idle"
    /\ request'[s].model = "loaded"
    /\ InGate # {}

\* C2: a call for the loaded model made while another session holds the gate
\* fails in that very step with the busy error: it has yielded nothing, has
\* consumed no token, does not wait for the gate, and the step leaves the
\* gate and every other session as they were
C2_FailFast ==
    [][\A s \in Sessions :
          CallWhileHeld(s) =>
              /\ pc'[s] = "raised"
              /\ error'[s] = "busy"
              /\ out'[s] = <<>>
              /\ frags'[s] = <<>>
              /\ tokens'[s] = <<>>
              /\ SEMAPHORE' = SEMAPHORE
              /\ running' = running
              /\ \A t \in Sessions \ {s} : SessionUnchanged(t)]_vars

\* a streaming call was rejected as busy while the holder was in mid-stream
C2_Witness ==
    \E s, t \in Sessions :
        /\ error[s] = "busy"
        /\ request[s].stream
        /\ Suspended(t)
        /\ Len(frags[t]) > 0

\* the event types of the items a streaming session has yielded
EventTypes(s) == [i \in 1 .. Len(out[s]) |-> out[s][i].event_type]

\* Start . Progress* . Complete
WellFramed(types) ==
    /\ Len(types) >= 2
    /\ types[1] = "start"
    /\ types[Len(types)] = "complete"
    /\ \A i \in 2 .. Len(types) - 1 : types[i] = "progress"

\* the session was admitted, its iterator ran to exhaustion without error and
\* its consumer read to the end of the stream
Finished(s) == pc[s] = "done"

\* C3: the events of a streaming session that ran to its end are Start, then
\* Progress events only, then Complete; all of them are stream chunks
C3_EventFraming ==
    \A s \in Sessions :
        Finished(s) /\ request[s].stream =>
            /\ \A i \in 1 .. Len(out[s]) :
                   out[s][i].class = "ChatCompletionResponseStreamChunk"
            /\ WellFramed(EventTypes(s))

\* a finished streaming session saw the sentinel and an end marker
C3_Witness ==
    \E s \in Sessions :
        /\ Finished(s)
        /\ request[s].stream
        /\ ipython[s]
        /\ Saw(s, EOT_ID)
        /\ Len(out[s]) > 3

\* the stop reason passed to decode_assistant_message
DecodedReason(s) == decodes[s][Len(decodes[s])].stop_reason

\* the session has yielded its terminal output: Complete, or the response
Delivered(s) == pc[s] \in {"end", "done"}

\* the stop reason the terminal output carries
TerminalReason(s) ==
    LET last == out[s][Len(out[s])] IN
    IF request[s].stream THEN last.stop_reason ELSE last.completion_message.stop_reason

\* the session's stop reason, where it is passed on, is this one
ReasonIs(s, reason) ==
    /\ decodes[s] # <<>> => DecodedReason(s) = reason
    /\ Delivered(s) => TerminalReason(s) = reason

\* C4: in every session, streaming or not, a fragment equal to "<|eot_id|>"
\* makes the stop reason end_of_turn and a fragment equal to "<|eom_id|>"
\* makes it end_of_message, as passed to the decoder and as carried by the
\* terminal output
C4_MarkerClassified ==
    \A s \in Sessions :
        /\ Saw(s, EOT_ID) => ReasonIs(s, "end_of_turn")
        /\ Saw(s, EOM_ID) => ReasonIs(s, "end_of_message")

\* C5: a session whose fragments hold neither end marker has, once its
\* iterator is exhausted, the stop reason out_of_tokens: in the local, in the
\* call of the decoder and in the terminal output, streaming or not, in
\* tool-call mode or not
C5_OutOfTokens ==
    \A s \in Sessions :
        decodes[s] # <<>> /\ ~Saw(s, EOT_ID) /\ ~Saw(s, EOM_ID) =>
            /\ stop_reason[s] = "out_of_tokens"
            /\ ReasonIs(s, "out_of_tokens")

\* a non-streaming session in tool-call mode delivered its response after
\* fragments without a marker
C5_Witness ==
    \E s \in Sessions :
        /\ Delivered(s)
        /\ ~request[s].stream
        /\ ipython[s]
        /\ Len(frags[s]) > 1
        /\ ~Saw(s, EOT_ID) /\ ~Saw(s, EOM_ID)

\* C6: a stop reason, once set, is never changed by a later fragment or step
\* of the session
C6_WriteOnce ==
    [][\A s \in Sessions :
          stop_reason[s] # "None" /\ pc'[s] \in Gated =>
              stop_reason'[s] = stop_reason[s]]_vars

\* the parse status of the i-th item of a streaming session; "str" for text
Status(s, i) ==
    IF out[s][i].delta.type = "ToolCallDelta"
    THEN out[s][i].delta.parse_status
    ELSE "str"

\* the positions of the session's events with this parse status
WithStatus(s, status) == {i \in 1 .. Len(out[s]) : Status(s, i) = status}

\* C7: in a streaming session that has yielded Complete as its k-th item:
\* with N >= 1 tool calls decoded, the N items before Complete are the
\* success events of the tool calls in the message's order, and there is no
\* other success event and no failure event; with tool-call mode entered and
\* no tool call decoded, the item before Complete is a failure event, the
\* only one, and there is no success event
C7_Reconciliation ==
    \A s \in Sessions :
        Delivered(s) /\ request[s].stream =>
            LET k == Len(out[s])
                N == Len(message[s].tool_calls)
            IN
            /\ N >= 1 =>
                  /\ WithStatus(s, "success") = (k - N) .. (k - 1)
                  /\ \A j \in 1 .. N :
                         out[s][k - N - 1 + j].delta.content = message[s].tool_calls[j]
                  /\ WithStatus(s, "failure") = {}
            /\ N = 0 /\ ipython[s] =>
                  /\ WithStatus(s, "failure") = {k - 1}
                  /\ WithStatus(s, "success") = {}

\* a streaming session in tool-call mode was reconciled with no tool call
\* decoded, after tool-call content had been streamed
C7_Witness ==
    \E s \in Sessions :
        /\ Delivered(s)
        /\ request[s].stream
        /\ ipython[s]
        /\ Len(message[s].tool_calls) = 0
        /\ WithStatus(s, "in_progress") # {}

\* a streaming session in tool-call mode was reconciled with several tool
\* calls decoded
C7_WitnessSuccess ==
    \E s \in Sessions :
        /\ Delivered(s)
        /\ request[s].stream
        /\ ipython[s]
        /\ Len(message[s].tool_calls) > 1

\* C8: a non-streaming session yields no stream chunk: nothing before its
\* response, and exactly one item, the response with the decoded message,
\* once it has delivered
C8_SingleResponse ==
    \A s \in Sessions :
        pc[s] \in Gated \cup {"done"} /\ ~request[s].stream =>
            /\ \A i \in 1 .. Len(out[s]) : out[s][i].class = "ChatCompletionResponse"
            /\ Len(out[s]) <= 1
            /\ Delivered(s) =>
                  /\ Len(out[s]) = 1
                  /\ out[s][1].completion_message = message[s]

\* the session has yielded a Complete event or a response
HasTerminal(s) ==
    \E i \in 1 .. Len(out[s]) :
        \/ out[s][i].class = "ChatCompletionResponse"
        \/ out[s][i].event_type = "complete"

\* C9: when the engine's iterator or the decoder raises in an admitted
\* session, the session is over with that error, it has yielded neither a
\* Complete event nor a response, and the gate is free for the next call
C9_EngineErrorReleases ==
    \A s \in Sessions :
        error[s] \in {"engine", "decode"} =>
            /\ pc[s] = "raised"
            /\ ~HasTerminal(s)
            /\ InGate = {}
            /\ ~Locked

\* the iterator of a streaming session raised in mid-stream
C9_Witness ==
    \E s \in Sessions :
        /\ error[s] = "engine"
        /\ request[s].stream
        /\ Len(frags[s]) > 0
        /\ Len(out[s]) > 1

\* C10: once the consumer of a streaming session has stopped reading before
\* the iterator is exhausted, the gate is eventually free
C10_EarlyStopReleases ==
    \A s \in Sessions :
        (abandoned[s] /\ pc[s] = "loop" /\ request[s].stream) ~> ~Locked

\* a call for a model the inference engine cannot serve
CallForBadModel(s) ==
    /\ pc[s] = "idle"
    /\ pc'[s] # "idle"
    /\ request'[s].model # "loaded"

\* C11: a call naming an unknown model, or a model other than the loaded
\* one, fails in that very step with the model error and not the busy error,
\* whether the gate is free or held: it has yielded nothing, has consumed no
\* token, the gate is as it was and every other session is untouched
C11_ModelErrorFirst ==
    [][\A s \in Sessions :
          CallForBadModel(s) =>
              /\ pc'[s] = "raised"
              /\ request'[s].model = "unknown" => error'[s] = "unknown_model"
              /\ request'[s].model = "other" => error'[s] = "model_mismatch"
              /\ out'[s] = <<>>
              /\ frags'[s] = <<>>
              /\ tokens'[s] = <<>>
              /\ SEMAPHORE' = SEMAPHORE
              /\ running' = running
              /\ \A t \in Sessions \ {s} : SessionUnchanged(t)]_vars

\* a call for another model than the loaded one has failed with the
\* mismatch error while a session is suspended inside the gate
C11_Witness ==
    \E s, t \in Sessions :
        /\ error[s] = "model_mismatch"
        /\ pc[s] = "raised"
        /\ Suspended(t)
        /\ Locked

RECURSIVE Concat(_)
\* the concatenation of a sequence of strings
Concat(strings) ==
    IF strings = <<>> THEN <<>>
    ELSE Head(strings) \o Concat(Tail(strings))

\* sub occurs in the string
Contains(string, sub) ==
    \E i \in 1 .. Len(string) - Len(sub) + 1 :
        SubSeq(string, i, i + Len(sub) - 1) = sub

\* the text an event carries: a plain delta's text, or the content of a
\* tool-call delta that is not a parsed call
EventText(event) ==
    IF event.delta.type = "str" THEN event.delta.text
    ELSE IF event.delta.parse_status = "success" THEN <<>>
    ELSE event.delta.content

\* C12: in a streaming session that has matched the sentinel, the buffer is
\* the generated text less one leading sentinel, and no Progress event after
\* the started event carries a content in which the sentinel occurs
C12_SentinelStrippedOnce ==
    \A s \in Sessions :
        request[s].stream /\ ipython[s] =>
            /\ PYTHON_TAG \o buffer[s] = Concat(Texts(s))
            /\ \A i, j \in 1 .. Len(out[s]) :
                  /\ i < j
                  /\ Status(s, i) = "started"
                  /\ out[s][j].event_type = "progress"
                  => ~Contains(EventText(out[s][j]), PYTHON_TAG)

\* the ids of the fragments the session's iterator has yielded, in order
TokenIds(s) == [i \in 1 .. Len(frags[s]) |-> frags[s][i].token]

\* the session's iterator has been exhausted: line 156 has been reached
Exhausted(s) == pc[s] \in {"tool_calls", "complete", "end", "done"}

\* C13: the decoder is called at most once in a session, exactly once when
\* the session has exhausted its iterator, streaming or not, and the token
\* list it is given is the list of the ids of all the fragments consumed, in
\* the iterator's order: the sentinel's, the markers' and the suppressed
\* fragments' ids included
C13_DecodedOnce ==
    \A s \in Sessions :
        /\ Len(decodes[s]) <= 1
        /\ Exhausted(s) => Len(decodes[s]) = 1
        /\ decodes[s] # <<>> =>
              /\ decodes[s][1].tokens = TokenIds(s)
              /\ Exhausted(s) => message[s].tokens = TokenIds(s)

\* a streaming session has delivered its outputs after the sentinel, an
\* end-of-turn marker and one fragment more, whose event was suppressed
C13_Witness ==
    \E s \in Sessions :
        /\ Delivered(s)
        /\ request[s].stream
        /\ Texts(s) = <<PYTHON_TAG, EOT_ID, Foo>>
        /\ Len(decodes[s]) = 1

\* C14: of two sessions run one after the other on the same request, the
\* same fragments and the same decoder result, the second is admitted and,
\* once over, has yielded the same items and decoded the same message as the
\* first: nothing of the first session reaches the second
C14_Deterministic ==
    \A k \in Kept, s \in Sessions \ Kept :
        /\ error[s] = "None"
        /\ pc[s] = "done" =>
              /\ out[s] = out[k]
              /\ message[s] = message[k]
              /\ decodes[s] = decodes[k]

\* the second of two streaming sessions that entered tool-call mode and
\* decoded a tool call is over
C14_Witness ==
    \E k \in Kept, s \in Sessions \ Kept :
        /\ pc[s] = "done"
        /\ request[s].stream
        /\ ipython[k]
        /\ Len(frags[s]) = MaxTokens
        /\ Len(message[s].tool_calls) > 0

\* C15: a streaming session whose engine yields the fragments
\* "<|python_tag|>", "foo(", "1)", "<|eot_id|>" and whose decoder finds one
\* tool call has yielded, when its last item is out, exactly: Start; the
\* started tool-call delta with empty content; the in_progress deltas with
\* "foo(" and with "1)"; the success delta of the tool call; Complete with
\* end_of_turn
C15_WorkedExample ==
    \A s \in Sessions :
        /\ Delivered(s)
        /\ request[s].stream
        /\ Texts(s) = ExampleTexts
        /\ Len(message[s].tool_calls) = 1
        => out[s] = << StreamChunk("start", Str(<<>>), "None"),
                       StreamChunk("progress", ToolCallDelta(<<>>, "started"), "None"),
                       StreamChunk("progress", ToolCallDelta(Foo, "in_progress"), "None"),
                       StreamChunk("progress", ToolCallDelta(One, "in_progress"), "None"),
                       StreamChunk("progress",
                           ToolCallDelta(message[s].tool_calls[1], "success"),
                           "end_of_turn"),
                       StreamChunk("complete", Str(<<>>), "end_of_turn") >>

\* the streaming session of the example has yielded Complete
C15_Witness ==
    \E s \in Sessions :
        /\ pc[s] = "end"
        /\ request[s].stream
        /\ Texts(s) = ExampleTexts
        /\ Len(message[s].tool_calls) = 1
        /\ Len(out[s]) > Len(ExampleTexts)

\* C16: at every point of a session, tool-call mode is on exactly when the
\* concatenation of the fragments consumed so far begins with the sentinel:
\* a sentinel split over the leading fragments switches the mode at the
\* fragment that completes it, and a sentinel after other text never does
C16_CumulativeDetection ==
    \A s \in Sessions :
        ipython[s] <=> StartsWith(Concat(Texts(s)), PYTHON_TAG)

\* tool-call mode is on after a sentinel split over two fragments, the first
\* of which left the mode off
C16_Witness ==
    \E s \in Sessions :
        /\ ipython[s]
        /\ Len(frags[s]) > 1
        /\ ~StartsWith(frags[s][1].text, PYTHON_TAG)
        /\ Texts(s) = <<TagHead, TagTailFoo>>

\* the fragment's text is an end marker
IsMarker(text) == text \in {EOT_ID, EOM_ID}

\* the number of fragments the session consumed before its first end marker
Unmarked(s) ==
    Cardinality({i \in 1 .. Len(frags[s]) :
                    \A j \in 1 .. i : ~IsMarker(frags[s][j].text)})

\* the event is a tool-call delta in progress
InProgress(event) ==
    /\ event.delta.type = "ToolCallDelta"
    /\ event.delta.parse_status = "in_progress"

\* the contents of the session's in_progress tool-call deltas, in order
InProgressContents(s) ==
    LET events == SelectSeq(out[s], InProgress) IN
    [i \in 1 .. Len(events) |-> events[i].delta.content]

\* C17: in a streaming session that entered tool-call mode and has yielded
\* all its items, the contents of the in_progress tool-call deltas make up,
\* in order, the text generated after the sentinel up to the first end
\* marker: what follows the sentinel in the fragment that completes it is
\* not lost
C17_RemainderSurfaced ==
    \A s \in Sessions :
        request[s].stream /\ ipython[s] /\ Delivered(s) =>
            Concat(InProgressContents(s)) =
                DropPrefix(Concat(SubSeq(Texts(s), 1, Unmarked(s))), Len(PYTHON_TAG))

\* the event is the Progress event of one fragment: plain text, or a
\* tool-call delta that starts or continues a call
PerFragment(event) ==
    /\ event.event_type = "progress"
    /\ event.delta.type = "ToolCallDelta" =>
          event.delta.parse_status \in {"started", "in_progress"}

\* C18: in a streaming session, the fragments before the first end marker
\* have one Progress event each, and the marker and the fragments after it
\* have none; no event carries a marker's text; the Progress events of the
\* fragments carry no stop reason; and the ids of all the fragments, the
\* suppressed ones included, are in the token list
C18_Suppression ==
    \A s \in Sessions :
        request[s].stream =>
            /\ Len(SelectSeq(out[s], PerFragment)) = Unmarked(s)
            /\ \A i \in 1 .. Len(out[s]) :
                  /\ ~Contains(EventText(out[s][i]), EOT_ID)
                  /\ ~Contains(EventText(out[s][i]), EOM_ID)
                  /\ PerFragment(out[s][i]) => out[s][i].stop_reason = "None"
            /\ tokens[s] = TokenIds(s)

\* a streaming session has yielded Complete after a fragment of text, an
\* end-of-message marker and one fragment more
C18_Witness ==
    \E s \in Sessions :
        /\ Delivered(s)
        /\ request[s].stream
        /\ Texts(s) = <<Foo, EOM_ID, One>>
        /\ Len(SelectSeq(out[s], PerFragment)) = 1

\* the log-probabilities of the fragments consumed before the first end marker
UnmarkedLogprobs(s) == [i \in 1 .. Unmarked(s) |-> frags[s][i].logprob]

\* C19: the response of a non-streaming session with log-probabilities
\* requested holds, in order, the log-probability of every fragment consumed
\* before the first end marker, the fragment that enters tool-call mode
\* included, and of no other; with no marker generated it is as long as the
\* token list
C19_Logprobs ==
    \A s \in Sessions :
        Delivered(s) /\ ~request[s].stream /\ request[s].logprobs =>
            LET response == out[s][Len(out[s])] IN
            /\ response.logprobs.present
            /\ response.logprobs.value = UnmarkedLogprobs(s)
            /\ Unmarked(s) = Len(frags[s]) =>
                  Len(response.logprobs.value) = Len(response.completion_message.tokens)

\* the item is an event of a streaming response
IsChunk(item) == item.class = "ChatCompletionResponseStreamChunk"

\* the item is the event that announces a tool call
Started(item) ==
    /\ IsChunk(item)
    /\ item.delta.type = "ToolCallDelta"
    /\ item.delta.parse_status = "started"

\* C20: a session has yielded one started event when tool-call mode is on
\* and none when it is off, at every point: the mode goes from off to on at
\* most once and never back; and every fragment's Progress event after the
\* started event is a tool-call delta in progress, none is plain text
C20_ModeMonotone ==
    \A s \in Sessions :
        /\ Len(SelectSeq(out[s], Started)) = IF ipython[s] THEN 1 ELSE 0
        /\ \A i, j \in 1 .. Len(out[s]) :
              /\ i < j
              /\ Started(out[s][i])
              /\ IsChunk(out[s][j])
              /\ PerFragment(out[s][j])
              => InProgress(out[s][j])

\* a streaming session in tool-call mode has consumed the sentinel a second
\* time and a fragment more
C20_Witness ==
    \E s \in Sessions :
        /\ request[s].stream
        /\ ipython[s]
        /\ Texts(s) = <<PYTHON_TAG, PYTHON_TAG, Foo>>
        /\ Started(out[s][Len(out[s]) - Len(frags[s]) + 1])

\* the session yielded a started event before its i-th item
StartedBefore(s, i) == \E k \in 1 .. i - 1 : Status(s, k) = "started"

\* C21 as stated: in a streaming session, every success or failure event
\* comes after a started event of the same session
C21_OutcomeAfterStarted ==
    \A s \in Sessions :
        request[s].stream =>
            \A i \in 1 .. Len(out[s]) :
                Status(s, i) \in {"success", "failure"} => StartedBefore(s, i)

\* C21 amended: in a streaming session a failure event comes only after a
\* started event; a success event carries a tool call of the decoded
\* message, and comes after a started event exactly when the session is in
\* tool-call mode: the tool calls the decoder finds in a session that never
\* entered the mode are reported all the same
C21_OutcomeFollowsDecode ==
    \A s \in Sessions :
        request[s].stream =>
            \A i \in 1 .. Len(out[s]) :
                /\ Status(s, i) = "failure" => StartedBefore(s, i)
                /\ Status(s, i) = "success" =>
                      /\ \E k \in 1 .. Len(message[s].tool_calls) :
                            out[s][i].delta.content = message[s].tool_calls[k]
                      /\ StartedBefore(s, i) <=> ipython[s]

\* a streaming session that never entered tool-call mode has yielded the
\* success event of a tool call the decoder found
C21_Witness ==
    \E s \in Sessions :
        /\ request[s].stream
        /\ ~ipython[s]
        /\ Len(frags[s]) > 0
        /\ WithStatus(s, "success") # {}
        /\ WithStatus(s, "started") = {}

\* the consumer holds the session's Complete event or response: the item has
\* been yielded and the generator is not running
TerminalReceived(s) == HasTerminal(s) /\ s \notin running

\* C22: whenever the consumer has received the Complete event or the
\* response of a session, the gate is free, so that the next call for the
\* loaded model is admitted, whether or not the consumer resumes the
\* session's generator again
C22_FreeOnceDelivered ==
    \A s \in Sessions : TerminalReceived(s) => ~Locked

\* the item is a Progress event with plain text
PlainText(item) ==
    /\ IsChunk(item)
    /\ item.event_type = "progress"
    /\ item.delta.type = "str"

\* C23: in a streaming session, no plain-text Progress event precedes the
\* started event: nothing of the sentinel is yielded as text, also when the
\* sentinel comes split over several fragments
C23_NoSentinelAsText ==
    \A s \in Sessions :
        request[s].stream =>
            \A i, j \in 1 .. Len(out[s]) :
                i < j /\ Started(out[s][j]) => ~PlainText(out[s][i])

\* C24: once a request of download() has failed with an HTTP error, the call
\* makes no further request: the failed request is the last one of the call
C24_StopsOnInterruption ==
    \A i \in 1 .. Len(range_requests) :
        range_requests[i].outcome = "http_error" => i = Len(range_requests)

\* C25: with a server that honours ranges, every request of download()
\* starts at the end of output_file, asks for exactly
\* min(total_size - downloaded_size, max_chunk_size) bytes and for no byte
\* at or beyond total_size; downloaded_size never exceeds total_size and is
\* total_size when download() has left the loop, with the remote file in
\* output_file; and a call that finds at least total_size bytes in
\* output_file makes no request
C25_ResumesExactly ==
    honours_ranges =>
        /\ \A i \in 1 .. Len(range_requests) :
              LET r == range_requests[i] IN
              /\ r.first = r.offset
              /\ r.last - r.first + 1 = Min(total_size - r.first, MaxChunkSize)
              /\ r.last < total_size
        /\ download_pc \in {"loop", "finished"} => downloaded_size <= total_size
        /\ download_pc = "finished" =>
              /\ downloaded_size = total_size
              /\ output_file = Bytes(0, total_size - 1)
        /\ download_pc = "skipped" =>
              /\ range_requests = <<>>
              /\ Len(output_file) = start_size
              /\ start_size >= total_size

====
